---- MODULE Spec2Model ----
(***************************************************************************)
(* mongowatch: the watch loop of stream/watcher.go, the checkpoint store   *)
(* (ResumeRepository) and the Manager that owns the cancellation scope.    *)
(*                                                                         *)
(* The watched collection's change feed is the sequence `feed`; an event   *)
(* is [id, ts, op] where id is its resume token (its position in the feed),*)
(* ts its cluster time and op its operationType.  Cluster times are        *)
(* non-decreasing; events written by one transaction share a cluster time, *)
(* an invalidate event never shares its cluster time with another event.   *)
(***************************************************************************)
EXTENDS Integers, Sequences, FiniteSets, TLC

\* ---- bounds of the model ----
MaxEvents == 4
MaxTxn == 2
MaxStages == 2
MaxWatches == 3
MaxLogs == 2
MaxDocs == 3
MaxIds == 2

\* ---- event.go ----
OperationTypeInvalidate == "invalidate"

OperationTypes == {"insert", "update", "delete", OperationTypeInvalidate}

\* a nil *ChangeStreamEvent / nil *ChangeStreamResumePoint
NoEvent == [id |-> 0, ts |-> 0, op |-> "none"]

VARIABLES
    feed,           \* events the watched collection has emitted so far
    col,            \* ResumeRepository.col: the stored resume points
    pc,             \* position of the goroutine running Manager.Watch
    ctx,            \* state of the context derived by the last Watch
    cancel,         \* Manager.cancel is non-nil
    resumePoint,    \* resumePoint / resumeToken argument of the attempt
    previousEvent,  \* watchChangeStream's previousEvent
    changeEvent,    \* watchChangeStream's changeEvent (last event drawn)
    pos,            \* watchCursor: feed index of the last event Next returned
    fetched,        \* watchCursor: feed index up to which the batch is fetched
    result,         \* what the last Watch call returned
    endedAt,        \* the step at which the last attempt ended
    dispatched,     \* ids handed to the dispatch funcs in this attempt, in order
    prior,          \* how the attempt before the current one ended
    yielded,        \* ids watchCursor.Next returned in this attempt, in order
    lastObserved,   \* the event the dispatch funcs were handed last, in any attempt
    sup,            \* position of DocumentProcessor.StartWithRetry ("off": not used)
    supStops,       \* Stop calls StartWithRetry made since the last attempt began
    pipe,           \* one run of the dispatch funcs over one event
    mgr,            \* a Manager whose Watch and Stop are called from several goroutines
    doc,            \* the DocumentProcessor's dispatch func and its collaborator
    repo,           \* one call on a ResumeRepository of any content, and its outcome
    cursor,         \* one call of getWatchCursor: what it asked of col.Watch, and its outcome
    delivered       \* history: the dispatches so far, in all attempts (kept when .on)

vars == <<feed, col, pc, ctx, cancel, resumePoint, previousEvent, changeEvent,
          pos, fetched, result, endedAt, dispatched, prior, yielded, lastObserved,
          sup, supStops, pipe, mgr, doc, repo, cursor, delivered>>

NoPrior == [result |-> "none", endedAt |-> "none", last |-> NoEvent]

\* no dispatch funcs run on their own, no shared Manager, no DocumentProcessor
NoPipe == [stages |-> <<>>, calls |-> <<>>, err |-> "nil", outcome |-> "none"]
NoManager == [cancel |-> 0, scope |-> <<>>, logged |-> 0, panicked |-> FALSE]
NoDoc == [events |-> <<>>, calls |-> <<>>, results |-> <<>>]
\* first: id of the first event ever handed to the dispatch funcs (0: none);
\* ok: ids of the events whose dispatch returned nil
NoDelivered == [on |-> FALSE, first |-> 0, ok |-> {}]
NoCursor == [mode |-> "none", rp |-> NoEvent, opts |-> <<>>, resps |-> <<>>,
             open |-> FALSE, err |-> <<>>]
NoRepo == [call |-> "none", arg |-> NoEvent, ok |-> TRUE, before |-> {},
           out |-> NoEvent, err |-> <<>>, started |-> FALSE]

\* ---- stream/handlers.go: GetSaveResumePointFunc builds the point ----
ResumePointOf(cse) == [id |-> cse.id, ts |-> cse.ts, op |-> cse.op]

\* ---- ResumeRepository ----
\* an insert of the point, without the filter on _id
SaveResumePoint_Insert(c, ce) == c \cup {ce}

\* UpdateOne with upsert, filter _id = ce.ID
SaveResumePoint(c, ce) == {r \in c : r.id # ce.id} \cup {ce}

\* a delete that removes nothing
DeleteResumePoint_Keep(c, token) == c

\* DeleteOne with filter _id = token
DeleteResumePoint(c, token) == {r \in c : r.id # token}

\* the sort direction reversed: the record with the least timestamp
GetLastResumePoint_Oldest(c) == {r \in c : \A q \in c : q.ts >= r.ts}

\* FindOne sorted by timestamp descending: any record carrying the greatest
\* timestamp may be returned; the empty set stands for ErrNoDocuments
GetLastResumePoint(c) == {r \in c : \A q \in c : q.ts <= r.ts}

\* ---- watcher.go getWatchCursor: where the opened cursor stands ----
\* index of the first feed event with cluster time >= t
\* every replay taken from the beginning of the oplog
FirstAtOrAfter_Beginning(f, t) == 1

FirstAtOrAfter(f, t) ==
    IF \E i \in 1..Len(f) : f[i].ts >= t
    THEN CHOOSE i \in 1..Len(f) : f[i].ts >= t /\ \A j \in 1..(i-1) : f[j].ts < t
    ELSE Len(f) + 1

\* every resume opened after the point's token, also an ordinary one
StartPosition_AfterToken(f, rp) == IF rp = NoEvent THEN Len(f) ELSE rp.id

StartPosition(f, rp) ==
    IF rp = NoEvent THEN Len(f)
    ELSE IF rp.op = OperationTypeInvalidate THEN rp.id
    ELSE FirstAtOrAfter(f, rp.ts) - 1

TypeOK ==
    /\ feed \in Seq([id : 1..(MaxEvents+1), ts : 1..(MaxEvents+1), op : OperationTypes])
    /\ pc \in {"idle", "next", "first", "save", "delete", "dispatch"}
    /\ ctx \in {"none", "live", "cancelled"}
    /\ cancel \in BOOLEAN
    /\ pos \in 0..Len(feed) /\ fetched \in pos..Len(feed)
    /\ result \in {"none", "nil", "err", "invalidate", "crashed"}

InitWatcher ==
    /\ feed = <<>>
    /\ col = {}
    /\ pc = "idle"
    /\ ctx = "none"
    /\ cancel = FALSE
    /\ resumePoint = NoEvent
    /\ previousEvent = NoEvent
    /\ changeEvent = NoEvent
    /\ pos = 0
    /\ fetched = 0
    /\ result = "none"
    /\ endedAt = "none"
    /\ dispatched = <<>>
    /\ prior = NoPrior
    /\ yielded = <<>>
    /\ lastObserved = NoEvent
    /\ supStops = 0

\* the Manager driven directly by its caller, as in the Manager tests
Init == InitWatcher /\ sup = "off" /\ pipe = NoPipe /\ mgr = NoManager /\ doc = NoDoc
    /\ repo = NoRepo /\ cursor = NoCursor /\ delivered = NoDelivered

\* the history after the dispatch funcs were run on event e and returned
\* nil (ok) or an error
Delivered(d, e, ok) ==
    IF ~d.on THEN d
    ELSE [d EXCEPT !.first = IF d.first = 0 THEN e.id ELSE d.first,
                   !.ok = IF ok THEN d.ok \cup {e.id} ELSE d.ok]

\* the attempt returns r from step `at`; the deferred watchCursor.Close and the
\* end of watchChangeStream's frame drop the cursor and previousEvent
Return(r, at) ==
    /\ pc' = "idle"
    /\ result' = r
    /\ endedAt' = at
    /\ pos' = 0
    /\ fetched' = 0
    /\ previousEvent' = NoEvent

\* ---- the watched collection ----
\* the writers insert a document, update it, delete it, and so on (the workload
\* of Test_DocumentProcessor_Start); the i-th write is of this type
WriteOp(i) == IF i % 3 = 1 THEN "insert" ELSE IF i % 3 = 2 THEN "update" ELSE "delete"

\* a transaction of `size` writes on the watched collection commits, or (drop)
\* the collection is dropped or renamed: the change events are appended to the
\* feed; the events of one transaction share its cluster time
Emit(drop, size) ==
    /\ Len(feed) + size <= MaxEvents
    /\ drop => size = 1
    /\ LET last == IF feed = <<>> THEN 0 ELSE feed[Len(feed)].ts
           n == Len(feed)
           e(i) == [id |-> n + i, ts |-> last + 1,
                    op |-> IF drop THEN OperationTypeInvalidate ELSE WriteOp(n + i)]
       IN feed' = feed \o [i \in 1..size |-> e(i)]
    /\ UNCHANGED <<col, pc, ctx, cancel, resumePoint, previousEvent, changeEvent,
                   pos, fetched, result, endedAt, dispatched, prior,
                   yielded, lastObserved, sup, supStops, pipe, mgr, doc, repo, cursor, delivered>>

\* the context of the first Watch call kept for the later ones
Watch_SameScope(readOk, openOk) ==
    /\ pc = "idle"
    /\ sup \in {"off", "retry"}
    /\ sup' = IF sup = "off" THEN "off" ELSE "attempt"
    /\ supStops' = 0
    /\ cancel' = TRUE
    /\ ctx' = IF ctx = "none" THEN "live" ELSE ctx
    /\ prior' = [result |-> result, endedAt |-> endedAt, last |-> changeEvent]
    /\ dispatched' = <<>>
    /\ yielded' = <<>>
    /\ changeEvent' = NoEvent
    /\ UNCHANGED <<feed, col, lastObserved, pipe, mgr, doc, repo, cursor, delivered>>
    /\ IF ~readOk
       THEN /\ Return("err", "read")
            /\ resumePoint' = NoEvent
       ELSE \E rp \in (IF col = {} THEN {NoEvent} ELSE GetLastResumePoint(col)) :
            /\ resumePoint' = rp
            /\ IF ~openOk
               THEN Return("err", "open")
               ELSE /\ pos' = StartPosition(feed, rp)
                    /\ fetched' = StartPosition(feed, rp)
                    /\ previousEvent' = NoEvent
                    /\ pc' = "next"
                    /\ result' = "none"
                    /\ endedAt' = "none"

\* ---- Manager.Watch up to the point the watch loop starts ----
\* readOk: the resume repository could be read; openOk: col.Watch succeeded.
\* The callers (DocumentProcessor.Start, the Manager tests) pass nil or the
\* stored resume point, so the attempt always resumes from what the
\* repository's last record is; the whole record reaches getWatchCursor.
Watch(readOk, openOk) ==
    /\ pc = "idle"
    /\ sup \in {"off", "retry"}
    /\ sup' = IF sup = "off" THEN "off" ELSE "attempt"
    /\ supStops' = 0
    /\ cancel' = TRUE
    /\ ctx' = "live"
    /\ prior' = [result |-> result, endedAt |-> endedAt, last |-> changeEvent]
    /\ dispatched' = <<>>
    /\ yielded' = <<>>
    /\ changeEvent' = NoEvent
    /\ UNCHANGED <<feed, col, lastObserved, pipe, mgr, doc, repo, cursor, delivered>>
    /\ IF ~readOk
       THEN /\ Return("err", "read")
            /\ resumePoint' = NoEvent
       ELSE \E rp \in (IF col = {} THEN {NoEvent} ELSE GetLastResumePoint(col)) :
            /\ resumePoint' = rp
            /\ IF ~openOk
               THEN Return("err", "open")
               ELSE /\ pos' = StartPosition(feed, rp)
                    /\ fetched' = StartPosition(feed, rp)
                    /\ previousEvent' = NoEvent
                    /\ pc' = "next"
                    /\ result' = "none"
                    /\ endedAt' = "none"

\* ---- Manager.Stop ----
Stop ==
    /\ cancel
    /\ ctx' = "cancelled"
    /\ UNCHANGED <<feed, col, pc, cancel, resumePoint, previousEvent, changeEvent,
                   pos, fetched, result, endedAt, dispatched, prior,
                   yielded, lastObserved, sup, supStops, pipe, mgr, doc, repo, cursor, delivered>>

\* ---- watchCursor.Next(ctx) ----
\* the blocked Next fetches the next batch from the server
Fetch ==
    /\ pc = "next"
    /\ ctx = "live"
    /\ pos = fetched
    /\ fetched < Len(feed)
    /\ fetched' = Len(feed)
    /\ UNCHANGED <<feed, col, pc, ctx, cancel, resumePoint, previousEvent, changeEvent,
                   pos, result, endedAt, dispatched, prior,
                   yielded, lastObserved, sup, supStops, pipe, mgr, doc, repo, cursor, delivered>>

\* the first event of a resumed attempt treated like any other
Next_AlwaysSave(extractOk) ==
    /\ pc = "next"
    /\ pos < fetched
    /\ changeEvent' = feed[pos + 1]
    /\ yielded' = Append(yielded, feed[pos + 1].id)
    /\ IF ~extractOk
       THEN Return("err", "extract")
       ELSE /\ pos' = pos + 1
            /\ pc' = "save"
            /\ UNCHANGED <<result, endedAt, fetched, previousEvent>>
    /\ UNCHANGED <<feed, col, ctx, cancel, resumePoint, dispatched, prior,
                   lastObserved, sup, supStops, pipe, mgr, doc, repo, cursor, delivered>>

\* Next returns true with the next event of the batch; extractOk: bson.Unmarshal
Next(extractOk) ==
    /\ pc = "next"
    /\ pos < fetched
    /\ changeEvent' = feed[pos + 1]
    /\ yielded' = Append(yielded, feed[pos + 1].id)
    /\ IF ~extractOk
       THEN Return("err", "extract")
       ELSE /\ pos' = pos + 1
            /\ pc' = IF previousEvent = NoEvent /\ resumePoint # NoEvent
                     THEN "first" ELSE "save"
            /\ UNCHANGED <<result, endedAt, fetched, previousEvent>>
    /\ UNCHANGED <<feed, col, ctx, cancel, resumePoint, dispatched, prior,
                   lastObserved, sup, supStops, pipe, mgr, doc, repo, cursor, delivered>>

\* the cancellation surfaced as an error instead of a clean exit
NextCancelled_AsError ==
    /\ pc = "next"
    /\ ctx = "cancelled"
    /\ pos = fetched
    /\ Return("err", "cancelled")
    /\ UNCHANGED <<feed, col, ctx, cancel, resumePoint, changeEvent, dispatched, prior,
                   yielded, lastObserved, sup, supStops, pipe, mgr, doc, repo, cursor, delivered>>

\* Next returns false because the context was cancelled: the loop returns nil
NextCancelled ==
    /\ pc = "next"
    /\ ctx = "cancelled"
    /\ pos = fetched
    /\ Return("nil", "cancelled")
    /\ UNCHANGED <<feed, col, ctx, cancel, resumePoint, changeEvent, dispatched, prior,
                   yielded, lastObserved, sup, supStops, pipe, mgr, doc, repo, cursor, delivered>>

\* Next returns false because the cursor failed: watchCursor.Err() is never
\* looked at, the loop falls through to `return nil`
NextCursorError ==
    /\ pc = "next"
    /\ ctx = "live"
    /\ pos = fetched
    /\ Return("nil", "cursor")
    /\ UNCHANGED <<feed, col, ctx, cancel, resumePoint, changeEvent, dispatched, prior,
                   yielded, lastObserved, sup, supStops, pipe, mgr, doc, repo, cursor, delivered>>

\* ---- watchChangeStream, first event after a resume (lines 160-184) ----
\* the redelivered event taken as already handled and not dispatched
DispatchFirst_Skip(ok) ==
    /\ pc = "first"
    /\ IF ~ok
       THEN Return("err", "first")
       ELSE IF changeEvent.op = OperationTypeInvalidate
       THEN Return("invalidate", "first")
       ELSE /\ previousEvent' = changeEvent
            /\ pc' = "next"
            /\ UNCHANGED <<result, endedAt, pos, fetched>>
    /\ UNCHANGED <<feed, col, ctx, cancel, resumePoint, changeEvent, prior,
                   dispatched, lastObserved, yielded, sup, supStops, pipe, mgr, doc, repo, cursor, delivered>>

DispatchFirst(ok) ==
    /\ pc = "first"
    /\ dispatched' = Append(dispatched, changeEvent.id)
    /\ lastObserved' = changeEvent
    /\ delivered' = Delivered(delivered, changeEvent, ok)
    /\ IF ~ok
       THEN Return("err", "first")
       ELSE IF changeEvent.op = OperationTypeInvalidate
       THEN Return("invalidate", "first")
       ELSE /\ previousEvent' = changeEvent
            /\ pc' = "next"
            /\ UNCHANGED <<result, endedAt, pos, fetched>>
    /\ UNCHANGED <<feed, col, ctx, cancel, resumePoint, changeEvent, prior,
                   yielded, sup, supStops, pipe, mgr, doc, repo, cursor>>

\* ---- watchChangeStream, saveFunc (lines 186-192) ----
Save(ok) ==
    /\ pc = "save"
    /\ ok => ctx = "live"
    /\ IF ~ok
       THEN /\ Return("err", "save")
            /\ UNCHANGED col
       ELSE /\ col' = SaveResumePoint(col, ResumePointOf(changeEvent))
            /\ pc' = IF previousEvent # NoEvent THEN "delete" ELSE "dispatch"
            /\ UNCHANGED <<result, endedAt, pos, fetched, previousEvent>>
    /\ UNCHANGED <<feed, ctx, cancel, resumePoint, changeEvent, dispatched, prior,
                   yielded, lastObserved, sup, supStops, pipe, mgr, doc, repo, cursor, delivered>>

\* ---- watchChangeStream, deleteFunc (lines 195-203) ----
\* deleteFunc handed the event just saved instead of the previous one
Delete_Current(ok) ==
    /\ pc = "delete"
    /\ ok => ctx = "live"
    /\ IF ~ok
       THEN /\ Return("err", "delete")
            /\ UNCHANGED col
       ELSE /\ col' = DeleteResumePoint(col, changeEvent.id)
            /\ pc' = "dispatch"
            /\ UNCHANGED <<result, endedAt, pos, fetched, previousEvent>>
    /\ UNCHANGED <<feed, ctx, cancel, resumePoint, changeEvent, dispatched, prior,
                   yielded, lastObserved, sup, supStops, pipe, mgr, doc, repo, cursor, delivered>>

\* deleteFunc's error dropped: the dispatch funcs run all the same
Delete_Unchecked(ok) ==
    /\ pc = "delete"
    /\ ok => ctx = "live"
    /\ col' = IF ok THEN DeleteResumePoint(col, previousEvent.id) ELSE col
    /\ pc' = "dispatch"
    /\ UNCHANGED <<result, endedAt, pos, fetched, previousEvent>>
    /\ UNCHANGED <<feed, ctx, cancel, resumePoint, changeEvent, dispatched, prior,
                   yielded, lastObserved, sup, supStops, pipe, mgr, doc, repo, cursor, delivered>>

Delete(ok) ==
    /\ pc = "delete"
    /\ ok => ctx = "live"
    /\ IF ~ok
       THEN /\ Return("err", "delete")
            /\ UNCHANGED col
       ELSE /\ col' = DeleteResumePoint(col, previousEvent.id)
            /\ pc' = "dispatch"
            /\ UNCHANGED <<result, endedAt, pos, fetched, previousEvent>>
    /\ UNCHANGED <<feed, ctx, cancel, resumePoint, changeEvent, dispatched, prior,
                   yielded, lastObserved, sup, supStops, pipe, mgr, doc, repo, cursor, delivered>>

\* ---- watchChangeStream, dispatch funcs of the normal path (lines 205-225) ----
\* the loop going on after an invalidate event
Dispatch_IgnoreInvalidate(ok) ==
    /\ pc = "dispatch"
    /\ dispatched' = Append(dispatched, changeEvent.id)
    /\ lastObserved' = changeEvent
    /\ delivered' = Delivered(delivered, changeEvent, ok)
    /\ IF ~ok
       THEN Return("err", "dispatch")
       ELSE /\ previousEvent' = changeEvent
            /\ pc' = "next"
            /\ UNCHANGED <<result, endedAt, pos, fetched>>
    /\ UNCHANGED <<feed, col, ctx, cancel, resumePoint, changeEvent, prior,
                   yielded, sup, supStops, pipe, mgr, doc, repo, cursor>>

Dispatch(ok) ==
    /\ pc = "dispatch"
    /\ dispatched' = Append(dispatched, changeEvent.id)
    /\ lastObserved' = changeEvent
    /\ delivered' = Delivered(delivered, changeEvent, ok)
    /\ IF ~ok
       THEN Return("err", "dispatch")
       ELSE IF changeEvent.op = OperationTypeInvalidate
       THEN Return("invalidate", "dispatch")
       ELSE /\ previousEvent' = changeEvent
            /\ pc' = "next"
            /\ UNCHANGED <<result, endedAt, pos, fetched>>
    /\ UNCHANGED <<feed, col, ctx, cancel, resumePoint, changeEvent, prior,
                   yielded, sup, supStops, pipe, mgr, doc, repo, cursor>>

\* ---- the process dies while an attempt is running ----
Crash ==
    /\ pc # "idle"
    /\ Return("crashed", pc)
    /\ cancel' = FALSE
    /\ ctx' = "none"
    /\ UNCHANGED <<feed, col, resumePoint, changeEvent, dispatched, prior,
                   yielded, lastObserved, sup, supStops, pipe, mgr, doc, repo, cursor, delivered>>

Next_ ==
    \/ \E drop \in BOOLEAN, size \in 1..MaxTxn : Emit(drop, size)
    \/ \E readOk \in BOOLEAN, openOk \in BOOLEAN : Watch(readOk, openOk)
    \/ Stop
    \/ Fetch
    \/ \E ok \in BOOLEAN : Next(ok)
    \/ NextCancelled
    \/ NextCursorError
    \/ \E ok \in BOOLEAN : DispatchFirst(ok)
    \/ \E ok \in BOOLEAN : Save(ok)
    \/ \E ok \in BOOLEAN : Delete(ok)
    \/ \E ok \in BOOLEAN : Dispatch(ok)
    \/ Crash

Spec == Init /\ [][Next_]_vars

\* the same program with the history of its dispatches kept
DeliveredInit ==
    /\ InitWatcher /\ sup = "off" /\ pipe = NoPipe /\ mgr = NoManager /\ doc = NoDoc
    /\ repo = NoRepo /\ cursor = NoCursor
    /\ delivered = [NoDelivered EXCEPT !.on = TRUE]

DeliveredSpec == DeliveredInit /\ [][Next_]_vars

(***************************************************************************)
(* DocumentProcessor.StartWithRetry: the retry supervisor                   *)
(***************************************************************************)
ErrInvalidate == "received 'invalidate' event"

\* the error formatted with %v: the chain of wrapped errors is lost
Wrap_Opaque(msg, err) == <<msg>>

\* fmt.Errorf(msg + ": %w", err): an error is the sequence of the messages
\* of its chain, outermost first; nil is the empty sequence
Wrap(msg, err) == <<msg>> \o err

\* errors.Is(err, target): target is somewhere in err's chain
ErrorsIs(err, target) == \E i \in 1..Len(err) : err[i] = target

\* the error watchChangeStream returns when it ends with result r at step `at`
LoopError(r, at) ==
    IF r = "invalidate" THEN <<ErrInvalidate>>
    ELSE IF at = "extract" THEN Wrap("failed to extract change event", <<"bson">>)
    ELSE IF at = "first" THEN Wrap("failed to process first event", <<"handler">>)
    ELSE IF at = "save" THEN Wrap("failed to save event", <<"store">>)
    ELSE IF at = "delete" THEN Wrap("failed to delete event", <<"store">>)
    ELSE Wrap("failed to process event", <<"handler">>)

\* the error Manager.Watch returns to DocumentProcessor.Start, which returns
\* it unchanged, for an attempt that ended with result r at step `at`
WatchError(r, at) ==
    IF r = "nil" THEN <<>>
    ELSE IF at = "read" THEN Wrap("failed to fetch mongo watcher resume token", <<"store">>)
    ELSE IF at = "open" THEN Wrap("failed to watch mongo stream", <<"driver">>)
    ELSE Wrap("failed to watch mongo stream",
              Wrap("failed to watch change stream", LoopError(r, at)))

\* op's classification taken before dp.Start has returned
OpReturned_Early(policyStop) ==
    /\ sup = "attempt"
    /\ sup' = IF policyStop THEN "returnedErr" ELSE "backoff"
    /\ UNCHANGED <<feed, col, pc, ctx, cancel, resumePoint, previousEvent, changeEvent,
                   pos, fetched, result, endedAt, dispatched, prior,
                   yielded, lastObserved, supStops, pipe, mgr, doc, repo, cursor, delivered>>

\* dp.Start returned inside op (lines 65-78), and backoff.Retry looks at what
\* op returned: nil ends StartWithRetry; on an error that is ErrInvalidate op
\* has called dp.Stop; then the policy is asked for the next interval
\* (policyStop: it answers backoff.Stop and StartWithRetry returns the error)
OpReturned(policyStop) ==
    /\ sup = "attempt"
    /\ pc = "idle"
    /\ LET err == WatchError(result, endedAt)
       IN IF err = <<>>
          THEN /\ ~policyStop
               /\ sup' = "returnedNil"
               /\ UNCHANGED <<ctx, supStops, pipe, mgr, doc, repo, cursor, delivered>>
          ELSE /\ IF ErrorsIs(err, ErrInvalidate)
                  THEN /\ ctx' = IF cancel THEN "cancelled" ELSE ctx
                       /\ supStops' = supStops + 1
                  ELSE UNCHANGED <<ctx, supStops, pipe, mgr, doc, repo, cursor, delivered>>
               /\ sup' = IF policyStop THEN "returnedErr" ELSE "backoff"
    /\ UNCHANGED <<feed, col, pc, cancel, resumePoint, previousEvent, changeEvent,
                   pos, fetched, result, endedAt, dispatched, prior,
                   yielded, lastObserved, pipe, mgr, doc, repo, cursor, delivered>>

\* backoff.Retry's timer fires: op is about to be called again
BackoffOver ==
    /\ sup = "backoff"
    /\ sup' = "retry"
    /\ UNCHANGED <<feed, col, pc, ctx, cancel, resumePoint, previousEvent, changeEvent,
                   pos, fetched, result, endedAt, dispatched, prior,
                   yielded, lastObserved, supStops, pipe, mgr, doc, repo, cursor, delivered>>

\* StartWithRetry has been called and op is about to run for the first time
RetryInit == InitWatcher /\ sup = "retry" /\ pipe = NoPipe /\ mgr = NoManager /\ doc = NoDoc
    /\ repo = NoRepo /\ cursor = NoCursor /\ delivered = NoDelivered

RetryNext ==
    \/ \E drop \in BOOLEAN, size \in 1..MaxTxn : Emit(drop, size)
    \/ \E readOk \in BOOLEAN, openOk \in BOOLEAN : Watch(readOk, openOk)
    \/ Stop
    \/ Fetch
    \/ \E ok \in BOOLEAN : Next(ok)
    \/ NextCancelled
    \/ NextCursorError
    \/ \E ok \in BOOLEAN : DispatchFirst(ok)
    \/ \E ok \in BOOLEAN : Save(ok)
    \/ \E ok \in BOOLEAN : Delete(ok)
    \/ \E ok \in BOOLEAN : Dispatch(ok)
    \/ \E policyStop \in BOOLEAN : OpReturned(policyStop)
    \/ BackoffOver

\* the supervisor over every environment: failures, user Stop, any policy
RetrySpec == RetryInit /\ [][RetryNext]_vars

\* the steps of the watch loop and of the supervisor when nothing fails,
\* nobody calls Stop and the policy never answers backoff.Stop
HealSteps ==
    \/ Watch(TRUE, TRUE)
    \/ Fetch
    \/ Next(TRUE)
    \/ DispatchFirst(TRUE)
    \/ Save(TRUE)
    \/ Delete(TRUE)
    \/ Dispatch(TRUE)
    \/ OpReturned(FALSE)
    \/ BackoffOver

HealNext ==
    \/ \E drop \in BOOLEAN, size \in 1..MaxTxn : Emit(drop, size)
    \/ HealSteps

\* the goroutine running StartWithRetry keeps being scheduled and every
\* backoff interval is finite
HealSpec == RetryInit /\ [][HealNext]_vars /\ WF_vars(HealSteps)

\* the variables of the watch loop and of the supervisor
watcherVars == <<feed, col, pc, ctx, cancel, resumePoint, previousEvent, changeEvent,
                 pos, fetched, result, endedAt, dispatched, prior, yielded,
                 lastObserved, sup, supStops>>

(***************************************************************************)
(* The dispatch funcs of one event (watcher.go 162-169 and 205-214)         *)
(***************************************************************************)
\* the errors a dispatch func can be handed and can return; "nil" is nil
Errs == {"nil", "errA", "errB"}

\* a ChangeEventDispatcherFunc for a fixed event: what it returns for each
\* error it is handed; the caller supplies n of them
DispatchFuncs(n) == [1..n -> [Errs -> Errs]]

\* the loop is entered with err = nil: extractChangeEvent, saveFunc and
\* deleteFunc have all returned nil when the range statement is reached
PipeInit ==
    /\ InitWatcher /\ sup = "off" /\ mgr = NoManager /\ doc = NoDoc /\ repo = NoRepo /\ cursor = NoCursor /\ delivered = NoDelivered
    /\ \E n \in 1..MaxStages : \E fns \in DispatchFuncs(n) :
           pipe = [stages |-> fns, calls |-> <<>>, err |-> "nil", outcome |-> "none"]

\* every dispatch func handed nil, whatever the one before it returned
CallStage_NilPrior ==
    /\ pipe.outcome = "none"
    /\ Len(pipe.calls) < Len(pipe.stages)
    /\ LET dispatchFunc == pipe.stages[Len(pipe.calls) + 1]
           err == dispatchFunc["nil"]
       IN pipe' = [pipe EXCEPT !.calls = Append(@, [prior |-> "nil", ret |-> err]),
                               !.err = err]
    /\ UNCHANGED <<watcherVars, mgr, doc, repo, cursor, delivered>>

\* one iteration of the range loop: err = dispatchFunc(ctx, changeEvent, err)
CallStage ==
    /\ pipe.outcome = "none"
    /\ Len(pipe.calls) < Len(pipe.stages)
    /\ LET dispatchFunc == pipe.stages[Len(pipe.calls) + 1]
           err == dispatchFunc[pipe.err]
       IN pipe' = [pipe EXCEPT !.calls = Append(@, [prior |-> pipe.err, ret |-> err]),
                               !.err = err]
    /\ UNCHANGED <<watcherVars, mgr, doc, repo, cursor, delivered>>

\* after the loop: `if err != nil { return ... }`, else the watcher goes on
LoopOver ==
    /\ pipe.outcome = "none"
    /\ Len(pipe.calls) = Len(pipe.stages)
    /\ pipe' = [pipe EXCEPT !.outcome = IF pipe.err # "nil" THEN "stopped" ELSE "continues"]
    /\ UNCHANGED <<watcherVars, mgr, doc, repo, cursor, delivered>>

PipeNext == CallStage \/ LoopOver

PipeSpec == PipeInit /\ [][PipeNext]_vars

(***************************************************************************)
(* One Manager used from several goroutines (manager.go)                    *)
(***************************************************************************)
\* mgr.cancel: the Watch call whose cancel func m.cancel holds (0: nil);
\* mgr.scope[w]: the w-th Watch call has not been made ("none"), its loop runs
\* under a live or a cancelled context, or it has returned;
\* mgr.logged: the error lines Stop has logged
ManagerInit ==
    /\ InitWatcher /\ sup = "off" /\ pipe = NoPipe /\ doc = NoDoc /\ repo = NoRepo /\ cursor = NoCursor /\ delivered = NoDelivered
    /\ mgr = [cancel |-> 0, scope |-> [w \in 1..MaxWatches |-> "none"],
              logged |-> 0, panicked |-> FALSE]

\* Manager.Watch, the w-th call: nothing in it looks at a watch already running
CallWatch(w) ==
    /\ ~mgr.panicked
    /\ mgr.scope[w] = "none"
    /\ \A v \in 1..(w - 1) : mgr.scope[v] # "none"
    /\ mgr' = [mgr EXCEPT !.cancel = w, !.scope[w] = "live"]
    /\ UNCHANGED <<watcherVars, pipe, doc, repo, cursor, delivered>>

\* m.cancel called without the nil check: a nil func call panics
CallStop_Unchecked ==
    /\ ~mgr.panicked
    /\ IF mgr.cancel = 0
       THEN mgr' = [mgr EXCEPT !.panicked = TRUE]
       ELSE mgr' = [mgr EXCEPT !.scope[mgr.cancel] = IF @ = "live" THEN "cancelled" ELSE @]
    /\ UNCHANGED <<watcherVars, pipe, doc, repo, cursor, delivered>>

\* Manager.Stop: with m.cancel nil it logs and returns, else it cancels the
\* context of the latest Watch call (a no-op when already cancelled or over)
CallStop ==
    /\ ~mgr.panicked
    /\ IF mgr.cancel = 0
       THEN /\ mgr.logged < MaxLogs
            /\ mgr' = [mgr EXCEPT !.logged = @ + 1]
       ELSE mgr' = [mgr EXCEPT !.scope[mgr.cancel] = IF @ = "live" THEN "cancelled" ELSE @]
    /\ UNCHANGED <<watcherVars, pipe, doc, repo, cursor, delivered>>

\* the w-th call's loop ends (cancelled: nil; live: an error) and Watch returns;
\* m.cancel is left as it is
WatchReturns(w) ==
    /\ mgr.scope[w] \in {"live", "cancelled"}
    /\ mgr' = [mgr EXCEPT !.scope[w] = "returned"]
    /\ UNCHANGED <<watcherVars, pipe, doc, repo, cursor, delivered>>

ManagerNext ==
    \/ \E w \in 1..MaxWatches : CallWatch(w)
    \/ CallStop
    \/ \E w \in 1..MaxWatches : WatchReturns(w)

ManagerSpec == ManagerInit /\ [][ManagerNext]_vars

(***************************************************************************)
(* DocumentProcessor.Start: the dispatch func and its collaborator          *)
(***************************************************************************)
WriteOps == {"insert", "update", "delete"}
NoDispatch == [op |-> "none", call |-> "none", payload |-> "none", result |-> "nil"]

\* delete events handed to Update
ChangeEventDispatcherFunc_Misrouted(op, hasPre, marshalOk, opErr) ==
    IF op \notin WriteOps
    THEN [op |-> op, call |-> "none", payload |-> "none", result |-> "nil"]
    ELSE IF ~marshalOk
    THEN [op |-> op, call |-> "none", payload |-> "none", result |-> "marshal"]
    ELSE [op |-> op,
          call |-> IF op = "insert" THEN "Insert" ELSE "Update",
          payload |-> IF op = "delete" /\ hasPre THEN "pre" ELSE "post",
          result |-> IF opErr THEN "collaborator" ELSE "nil"]

\* the dispatch func DocumentProcessor.Start builds (lines 96-135), on an event
\* of type op; hasPre: FullDocumentBeforeChange is not nil; marshalOk:
\* json.Marshal succeeds; opErr: the collaborator's operation returns an error
ChangeEventDispatcherFunc(op, hasPre, marshalOk, opErr) ==
    IF op \notin WriteOps
    THEN [op |-> op, call |-> "none", payload |-> "none", result |-> "nil"]
    ELSE IF ~marshalOk
    THEN [op |-> op, call |-> "none", payload |-> "none", result |-> "marshal"]
    ELSE [op |-> op,
          call |-> IF op = "insert" THEN "Insert"
                   ELSE IF op = "update" THEN "Update" ELSE "Delete",
          payload |-> IF op = "delete" /\ hasPre THEN "pre" ELSE "post",
          result |-> IF opErr THEN "collaborator" ELSE "nil"]

\* doc.events[op]: events of type op handed to the dispatch func;
\* doc.marshalled[op]: those of them whose document json.Marshal accepted;
\* doc.mock: the counters of examples/watchers.Mock; doc.last: the last call
DocInit ==
    /\ InitWatcher /\ sup = "off" /\ pipe = NoPipe /\ mgr = NoManager /\ repo = NoRepo /\ cursor = NoCursor /\ delivered = NoDelivered
    /\ doc = [events |-> [o \in OperationTypes |-> 0],
              marshalled |-> [o \in OperationTypes |-> 0],
              mock |-> [Insert |-> 0, Update |-> 0, Delete |-> 0],
              last |-> NoDispatch]

\* the watcher hands one event to the dispatch func
DocDispatch(op, hasPre, marshalOk, opErr) ==
    /\ doc.events["insert"] + doc.events["update"] + doc.events["delete"]
           + doc.events[OperationTypeInvalidate] < MaxDocs
    /\ hasPre => op = "delete"
    /\ LET r == ChangeEventDispatcherFunc(op, hasPre, marshalOk, opErr)
       IN doc' = [events |-> [doc.events EXCEPT ![op] = @ + 1],
                  marshalled |-> IF marshalOk
                                 THEN [doc.marshalled EXCEPT ![op] = @ + 1]
                                 ELSE doc.marshalled,
                  mock |-> IF r.call = "none" THEN doc.mock
                           ELSE [doc.mock EXCEPT ![r.call] = @ + 1],
                  last |-> r]
    /\ UNCHANGED <<watcherVars, pipe, mgr, repo, cursor, delivered>>

DocNext ==
    \E op \in OperationTypes, hasPre \in BOOLEAN, marshalOk \in BOOLEAN, opErr \in BOOLEAN :
        DocDispatch(op, hasPre, marshalOk, opErr)

DocSpec == DocInit /\ [][DocNext]_vars

(***************************************************************************)
(* The ResumeRepository on its own, and Manager.Watch's use of it           *)
(***************************************************************************)
\* the resume points a collection can hold, and the collections: _id is unique
ResumePoints == [id : 1..MaxIds, ts : 1..MaxIds, op : {"insert", OperationTypeInvalidate}]
Collections == {c \in SUBSET ResumePoints : \A r, q \in c : r.id = q.id => r = q}
Ids(c) == {r.id : r \in c}
ErrNoDocuments == "mongo: no documents in result"

\* a delete that matched nothing reported as an error
DeleteError_Strict(c, token, ok) ==
    IF ~ok THEN Wrap("failed to delete resume point", <<"driver">>)
    ELSE IF token \notin Ids(c) THEN Wrap("failed to delete resume point", <<"not found">>)
    ELSE <<>>

\* what DeleteResumePoint returns: DeleteOne's error wrapped, else nil; the
\* DeleteResult with its DeletedCount is dropped
DeleteError(c, token, ok) ==
    IF ~ok THEN Wrap("failed to delete resume point", <<"driver">>) ELSE <<>>

\* what GetLastResumePoint returns on collection c: Decode's error wrapped
GetLastError(c, ok) ==
    IF ~ok THEN Wrap("failed to find resume point", <<"driver">>)
    ELSE IF c = {} THEN Wrap("failed to find resume point", <<ErrNoDocuments>>)
    ELSE <<>>

\* the stored resume point always read, whatever the caller passed
ResolveResumePoint_StoreFirst(arg, c, readOk) ==
    IF GetLastError(c, readOk) # <<>> /\ ~ErrorsIs(GetLastError(c, readOk), ErrNoDocuments)
    THEN {[rp |-> NoEvent, started |-> FALSE,
           err |-> Wrap("failed to fetch mongo watcher resume token",
                        GetLastError(c, readOk))]}
    ELSE {[rp |-> r, err |-> <<>>, started |-> TRUE] :
             r \in (IF c = {} THEN {NoEvent} ELSE GetLastResumePoint(c))}

\* Manager.Watch lines 57-65: the resume point the watcher is started with
\* (NoEvent: nil, a cold start), or the error returned before watcher.Start;
\* arg is the caller's argument (NoEvent: nil), readOk the driver's health
ResolveResumePoint(arg, c, readOk) ==
    IF arg # NoEvent
    THEN {[rp |-> arg, err |-> <<>>, started |-> TRUE]}
    ELSE IF GetLastError(c, readOk) # <<>> /\ ~ErrorsIs(GetLastError(c, readOk), ErrNoDocuments)
    THEN {[rp |-> NoEvent, started |-> FALSE,
           err |-> Wrap("failed to fetch mongo watcher resume token",
                        GetLastError(c, readOk))]}
    ELSE {[rp |-> r, err |-> <<>>, started |-> TRUE] :
             r \in (IF c = {} THEN {NoEvent} ELSE GetLastResumePoint(c))}

RepoInit ==
    /\ feed = <<>> /\ pc = "idle" /\ ctx = "none" /\ cancel = FALSE
    /\ resumePoint = NoEvent /\ previousEvent = NoEvent /\ changeEvent = NoEvent
    /\ pos = 0 /\ fetched = 0 /\ result = "none" /\ endedAt = "none"
    /\ dispatched = <<>> /\ prior = NoPrior /\ yielded = <<>>
    /\ lastObserved = NoEvent /\ supStops = 0 /\ sup = "off"
    /\ pipe = NoPipe /\ mgr = NoManager /\ doc = NoDoc /\ repo = NoRepo /\ cursor = NoCursor /\ delivered = NoDelivered
    /\ col \in Collections

\* the variables a repository call leaves alone
notStore == <<feed, pc, ctx, cancel, resumePoint, previousEvent, changeEvent,
              pos, fetched, result, endedAt, dispatched, prior, yielded,
              lastObserved, sup, supStops, pipe, mgr, doc, cursor, delivered>>

\* SaveResumePoint(ctx, ce)
RepoSave(ce, ok) ==
    /\ col' = IF ok THEN SaveResumePoint(col, ce) ELSE col
    /\ repo' = [call |-> "save", arg |-> ce, ok |-> ok, before |-> col, out |-> NoEvent,
                err |-> IF ok THEN <<>> ELSE Wrap("failed to save resume point", <<"driver">>),
                started |-> FALSE]
    /\ UNCHANGED notStore

\* DeleteResumePoint(ctx, token)
RepoDelete(token, ok) ==
    /\ col' = IF ok THEN DeleteResumePoint(col, token) ELSE col
    /\ repo' = [call |-> "delete", arg |-> [id |-> token, ts |-> 0, op |-> "none"],
                ok |-> ok, before |-> col, out |-> NoEvent,
                err |-> DeleteError(col, token, ok), started |-> FALSE]
    /\ UNCHANGED notStore

\* GetLastResumePoint()
RepoGetLast(ok) ==
    /\ \E r \in (IF ok /\ col # {} THEN GetLastResumePoint(col) ELSE {NoEvent}) :
           repo' = [call |-> "getLast", arg |-> NoEvent, ok |-> ok, before |-> col,
                    out |-> r, err |-> GetLastError(col, ok), started |-> FALSE]
    /\ UNCHANGED <<col, notStore>>

\* Manager.Watch up to the call of watcher.Start
RepoWatch(arg, readOk) ==
    /\ \E o \in ResolveResumePoint(arg, col, readOk) :
           repo' = [call |-> "watch", arg |-> arg, ok |-> readOk, before |-> col,
                    out |-> o.rp, err |-> o.err, started |-> o.started]
    /\ UNCHANGED <<col, notStore>>

RepoNext ==
    \/ \E ce \in ResumePoints, ok \in BOOLEAN : RepoSave(ce, ok)
    \/ \E token \in 1..MaxIds, ok \in BOOLEAN : RepoDelete(token, ok)
    \/ \E ok \in BOOLEAN : RepoGetLast(ok)
    \/ \E arg \in ResumePoints \cup {NoEvent}, readOk \in BOOLEAN : RepoWatch(arg, readOk)

RepoSpec == RepoInit /\ [][RepoNext]_vars

(***************************************************************************)
(* ChangeStreamWatcher.getWatchCursor: the options handed to col.Watch      *)
(***************************************************************************)
\* the capture modes a consumer can configure (options.FullDocument)
FullDocumentModes == {"off", "required", "updateLookup"}

\* what col.Watch answers: nil, or an error as the messages of its chain
WatchResponses ==
    {<<>>, <<"NoMatchingDocument">>, <<"command failed", "NoMatchingDocument">>,
     <<"network">>}

\* strings.Contains(err.Error(), s): the text of an error is the text of its chain
StringsContains(err, s) == \E i \in 1..Len(err) : err[i] = s

\* every resume opened by operation time, also one from an invalidate record
ChangeStreamOptions_ByTimestamp(fullDocumentMode, rp) ==
    [fullDocument |-> "updateLookup",
     fullDocumentBeforeChange |-> "required",
     startAfter |-> 0,
     startAtOperationTime |-> IF rp # NoEvent THEN rp.ts ELSE 0]

\* the options built at lines 95-113; a start option that is not set is 0.
\* fullDocumentMode is only logged (line 107)
ChangeStreamOptions(fullDocumentMode, rp) ==
    [fullDocument |-> "updateLookup",
     fullDocumentBeforeChange |-> "required",
     startAfter |->
         IF rp # NoEvent /\ rp.op = OperationTypeInvalidate THEN rp.id ELSE 0,
     startAtOperationTime |->
         IF rp # NoEvent /\ rp.op # OperationTypeInvalidate THEN rp.ts ELSE 0]

\* the second open asking for pre-images again
FallbackOptions_Same(opts) == opts

\* the options of the second open (line 118)
FallbackOptions(opts) == [opts EXCEPT !.fullDocumentBeforeChange = "off"]

OpenInit ==
    /\ InitWatcher /\ sup = "off" /\ pipe = NoPipe /\ mgr = NoManager /\ doc = NoDoc
    /\ repo = NoRepo /\ cursor = NoCursor /\ delivered = NoDelivered

\* getWatchCursor(ctx, fullDocumentMode, rp); resp is what col.Watch answers
\* to the first open and again what it answers to the second, if there is one
GetWatchCursor(fullDocumentMode, rp, resp, again) ==
    /\ LET opts == ChangeStreamOptions(fullDocumentMode, rp)
           call == [mode |-> fullDocumentMode, rp |-> rp, opts |-> <<opts>>,
                    resps |-> <<resp>>, open |-> FALSE, err |-> <<>>]
       IN cursor' =
              IF resp = <<>>
              THEN [call EXCEPT !.open = TRUE]
              ELSE IF StringsContains(resp, "NoMatchingDocument")
              THEN [call EXCEPT !.opts = <<opts, FallbackOptions(opts)>>,
                                !.resps = <<resp, again>>,
                                !.open = (again = <<>>),
                                !.err = IF again = <<>> THEN <<>>
                                        ELSE Wrap("failed to watch collection", again)]
              ELSE [call EXCEPT !.err = Wrap("failed to watch collection", resp)]
    /\ UNCHANGED <<watcherVars, pipe, mgr, doc, repo, delivered>>

OpenNext ==
    \E fullDocumentMode \in FullDocumentModes, rp \in ResumePoints \cup {NoEvent},
       resp \in WatchResponses, again \in WatchResponses :
        GetWatchCursor(fullDocumentMode, rp, resp, again)

OpenSpec == OpenInit /\ [][OpenNext]_vars

(***************************************************************************)
(* Properties                                                              *)
(***************************************************************************)

\* the attempt was started without a resume point (the store was empty)
ColdAttempt == resumePoint = NoEvent

\* the loop is between two events, the last one drawn fully processed
BetweenEvents == pc = "next" /\ previousEvent # NoEvent

\* dispatched lists consecutive feed positions
InFeedOrder == \A i \in 1..(Len(dispatched) - 1) : dispatched[i + 1] = dispatched[i] + 1

\* C1: in a cold-start attempt, once the loop has finished processing an event
\* (it waits for the next one, or has returned nil or the Invalidate error)
\* the store holds exactly one record, that event's.
C1_ColdSingleCheckpoint ==
    (/\ ColdAttempt
     /\ \/ BetweenEvents
        \/ pc = "idle" /\ result \in {"nil", "invalidate"} /\ changeEvent # NoEvent)
    => col = {ResumePointOf(changeEvent)}

C1_Witness ==
    /\ ColdAttempt
    /\ pc = "idle" /\ result = "nil" /\ endedAt = "cancelled"
    /\ Len(dispatched) >= 3
    /\ col = {ResumePointOf(changeEvent)}

\* the attempt before this one processed events up to prior.last and was stopped
ResumedAfterStop ==
    /\ prior.result = "nil" /\ prior.endedAt = "cancelled"
    /\ prior.last # NoEvent
    /\ dispatched # <<>>

C3_InvalidateRecovery ==
    (prior.result = "invalidate" /\ pc # "idle") =>
        /\ resumePoint = ResumePointOf(prior.last)
        /\ dispatched # <<>> => dispatched[1] = prior.last.id + 1

\* C4: when dispatch fails for event j in the normal path the attempt ends with
\* an error and event j's record is the only one in the store.
C4_FailedDispatchCheckpoint ==
    (pc = "idle" /\ result = "err" /\ endedAt = "dispatch") =>
        col = {ResumePointOf(changeEvent)}

\* C5: after a dispatch failure on event e in the normal path e's record is in
\* the store, and the next attempt dispatches e again before any later event.
C5_FailedEventRedelivered ==
    /\ (pc = "idle" /\ result = "err" /\ endedAt = "dispatch") =>
           ResumePointOf(changeEvent) \in col
    /\ (prior.result = "err" /\ prior.endedAt = "dispatch") =>
           \A i \in 1..Len(dispatched) :
               dispatched[i] > prior.last.id =>
                   \E j \in 1..(i - 1) : dispatched[j] = prior.last.id

\* C6: once event k (k >= 2) has been processed, in whatever attempt, the store
\* holds exactly one record, event k's.
C6_SingleCheckpoint ==
    (BetweenEvents /\ previousEvent.id >= 2) => col = {ResumePointOf(previousEvent)}

\* C7: the store never holds more than two records.
C7_AtMostTwo == Cardinality(col) <= 2

\* the checkpoint an attempt stands on before it saves the event it has drawn
PriorCheckpoint ==
    IF previousEvent = NoEvent THEN NoEvent
    ELSE IF resumePoint # NoEvent /\ Len(dispatched) = 1 THEN resumePoint
    ELSE ResumePointOf(previousEvent)

\* what Manager.Watch may resume from, given the store
Resumable(c) == IF c = {} THEN {NoEvent} ELSE GetLastResumePoint(c)

\* C8 as stated: between save(e) and delete(previousEvent) getLast returns e's
\* record and no other.
C8_Original ==
    pc = "delete" => GetLastResumePoint(col) = {ResumePointOf(changeEvent)}

\* C8 amended: if the attempt dies between save(e) and delete(previousEvent),
\* getLast returns a record with e's timestamp, from which a Watch resumes at
\* the same feed position as from e's record; e's record is among the records
\* getLast may return and is the only one when e's timestamp is greater than
\* previousEvent's.  If it dies before save(e), getLast returns the checkpoint
\* the attempt stood on (or one of the same timestamp).  The next Watch
\* resumes from a record getLast returns.
C8_CrashSafety ==
    [][/\ (pc = "delete" /\ result' = "crashed") =>
              /\ ResumePointOf(changeEvent) \in GetLastResumePoint(col')
              /\ \A r \in GetLastResumePoint(col') :
                     /\ r.ts = changeEvent.ts
                     /\ StartPosition(feed, r) = StartPosition(feed, ResumePointOf(changeEvent))
              /\ changeEvent.ts > previousEvent.ts =>
                     GetLastResumePoint(col') = {ResumePointOf(changeEvent)}
       /\ (pc = "save" /\ result' = "crashed") =>
              PriorCheckpoint \in Resumable(col')
       /\ (pc = "idle" /\ pc' = "next") => resumePoint' \in Resumable(col)
      ]_vars

C8_Witness ==
    /\ prior.result = "crashed" /\ prior.endedAt = "delete"
    /\ pc = "next"
    /\ Cardinality(col) = 2
    /\ resumePoint = ResumePointOf(prior.last)

\* C9: the loop returns nil only when the wait ended because of cancellation.
C9_NilOnlyOnCancel ==
    (pc = "idle" /\ result = "nil") => endedAt = "cancelled"

\* Stop was called and the loop is blocked in Next with nothing fetched
StoppedWhileBlocked == pc = "next" /\ ctx = "cancelled" /\ pos = fetched

\* the scheduler keeps running the goroutine blocked in Next
FairSpec == Spec /\ WF_vars(NextCancelled)

\* C10: once Stop was called while the loop waits for the next event, the wait
\* ends, nothing more is saved, deleted or dispatched, and the Watch (unless
\* the process dies first) returns nil.
C10_StopWhileBlocked ==
    /\ [][StoppedWhileBlocked =>
             /\ col' = col
             /\ dispatched' = dispatched
             /\ \/ pc' = "next"
                \/ pc' = "idle" /\ result' \in {"nil", "crashed"}
         ]_vars
    /\ StoppedWhileBlocked ~> (pc = "idle")

C10_Witness ==
    /\ pc = "idle" /\ result = "nil" /\ endedAt = "cancelled"
    /\ ctx = "cancelled"
    /\ dispatched # <<>>

\* C11: within one attempt the events handed to the dispatch funcs are a prefix
\* of the events the cursor yielded, in the same order; the cursor yields
\* consecutive feed events, so nothing is reordered, skipped or duplicated; and
\* every yielded event is dispatched before the next one is drawn (no batching)
C11_DispatchedPrefixOfYielded ==
    /\ Len(dispatched) <= Len(yielded)
    /\ Len(yielded) <= Len(dispatched) + 1
    /\ \A i \in 1..Len(dispatched) : dispatched[i] = yielded[i]
    /\ \A i \in 1..(Len(yielded) - 1) : yielded[i + 1] = yielded[i] + 1
    /\ pc = "next" => dispatched = yielded

C11_Witness ==
    /\ resumePoint # NoEvent
    /\ pc = "next"
    /\ Len(dispatched) >= 3
    /\ dispatched = yielded

\* C12 as stated: over all attempts, every event handed to the dispatch funcs
\* has a cluster time greater than that of the event handed to them before it
C12_Original ==
    [][(dispatched' # dispatched /\ dispatched' # <<>> /\ lastObserved # NoEvent)
          => lastObserved'.ts > lastObserved.ts]_vars

\* C12 amended: within one attempt the dispatched events are in strictly
\* increasing feed order with non-decreasing cluster times, equal only for the
\* writes of one transaction; no dispatched event is older than the resume
\* point of its attempt, whose cluster time is dispatched again
C12_OrderWithinAttempt ==
    /\ \A i \in 1..(Len(dispatched) - 1) :
           /\ dispatched[i] < dispatched[i + 1]
           /\ feed[dispatched[i]].ts <= feed[dispatched[i + 1]].ts
           /\ feed[dispatched[i]].ts = feed[dispatched[i + 1]].ts =>
                  /\ feed[dispatched[i]].op # OperationTypeInvalidate
                  /\ feed[dispatched[i + 1]].op # OperationTypeInvalidate
    /\ \A i \in 1..Len(dispatched) :
           resumePoint # NoEvent => feed[dispatched[i]].ts >= resumePoint.ts
    /\ (resumePoint # NoEvent /\ resumePoint.op # OperationTypeInvalidate
            /\ dispatched # <<>>) => feed[dispatched[1]].ts = resumePoint.ts

C12_Witness ==
    /\ resumePoint # NoEvent
    /\ prior.last # NoEvent
    /\ Len(dispatched) >= 2
    /\ dispatched[1] <= prior.last.id
    /\ feed[dispatched[1]].ts = feed[dispatched[2]].ts

\* the event with token k has been handed to the dispatch funcs in this attempt
Observed(k) == \E i \in 1..Len(dispatched) : dispatched[i] = k

\* C13: under StartWithRetry, with nothing failing, no Stop and a policy that
\* never stops, the event that follows a dispatched invalidate event is
\* eventually dispatched too
C13_SelfHealing ==
    \A k \in 1..(MaxEvents + 1) :
        (k < Len(feed) /\ feed[k].op = OperationTypeInvalidate /\ Observed(k))
            ~> Observed(k + 1)

\* C14: when op has returned an error, StartWithRetry has called Stop once if
\* the attempt ended on the Invalidate error and not at all otherwise, and the
\* error went to the backoff loop (which sleeps or, the policy over, returns it)
C14_StopOnInvalidateOnly ==
    /\ (sup \in {"backoff", "retry", "returnedErr"} /\ result # "none") =>
           /\ result \in {"err", "invalidate"}
           /\ supStops = IF result = "invalidate" THEN 1 ELSE 0
           /\ result = "invalidate" => ctx = "cancelled"
    /\ sup \in {"attempt", "returnedNil"} => supStops = 0

C14_Witness ==
    /\ sup = "attempt"
    /\ prior.result = "invalidate"
    /\ ctx = "live"
    /\ dispatched # <<>>

C16_ErrorStopsPipeline ==
    \A i \in 1..Len(pipe.calls) :
        pipe.calls[i].ret # "nil" =>
            /\ Len(pipe.calls) = i
            /\ pipe.outcome # "continues"

Running == {w \in DOMAIN mgr.scope : mgr.scope[w] \in {"live", "cancelled"}}

\* C18: at most one watch loop runs on a Manager, and it is the one whose
\* cancel func Stop would call
C18_SingleActiveWatch ==
    /\ Cardinality(Running) <= 1
    /\ \A w \in Running : mgr.cancel = w

\* C19: Stop on a Manager whose Watch was never called does not panic, only
\* logs, leaves the Manager and the store as they were, and the first Watch
\* made afterwards runs under a live context that Stop can cancel
C19_StopBeforeWatch ==
    /\ [](~mgr.panicked)
    /\ [][(mgr.cancel = 0 /\ mgr'.logged # mgr.logged) =>
             /\ mgr'.logged = mgr.logged + 1
             /\ mgr'.cancel = 0
             /\ mgr'.scope = mgr.scope
             /\ col' = col
         ]_vars
    /\ [][(mgr.cancel = 0 /\ mgr'.cancel # 0) =>
             /\ mgr'.scope[mgr'.cancel] = "live"
             /\ mgr'.logged = mgr.logged
         ]_vars

C19_Witness ==
    /\ mgr.logged >= 1
    /\ mgr.cancel = 1
    /\ mgr.scope[1] = "cancelled"

\* the collaborator operation that belongs to an operationType
OperationFor(op) ==
    IF op = "insert" THEN "Insert" ELSE IF op = "update" THEN "Update" ELSE "Delete"

\* C20 as stated: every dispatched event makes exactly one collaborator call,
\* chosen by its operationType, and n events of a type make n calls
C20_Original ==
    /\ doc.last # NoDispatch =>
           /\ doc.last.call # "none"
           /\ doc.last.call = OperationFor(doc.last.op)
    /\ \A op \in WriteOps : doc.mock[OperationFor(op)] = doc.events[op]

\* C20 amended: an insert, update or delete event whose document marshals makes
\* exactly one collaborator call, the one of its operationType, and the
\* dispatch result is that call's error; an event whose document does not
\* marshal makes no call and the result is the marshal error; an event of
\* another type (invalidate) makes no call and the result is nil; so the calls
\* of an operation count the marshalled events of its type
C20_OneCallPerWrite ==
    /\ (doc.last.op \in WriteOps /\ doc.last.result # "marshal") =>
           /\ doc.last.call = OperationFor(doc.last.op)
           /\ doc.last.result \in {"nil", "collaborator"}
    /\ doc.last.result = "marshal" => (doc.last.op \in WriteOps /\ doc.last.call = "none")
    /\ doc.last.op \notin WriteOps => (doc.last.call = "none" /\ doc.last.result = "nil")
    /\ \A op \in WriteOps :
           /\ doc.mock[OperationFor(op)] = doc.marshalled[op]
           /\ doc.mock[OperationFor(op)] <= doc.events[op]

C20_Witness ==
    /\ doc.mock["Insert"] = 1
    /\ doc.mock["Delete"] = 1
    /\ doc.events[OperationTypeInvalidate] = 1
    /\ doc.last.op = OperationTypeInvalidate

\* C21: a delete the driver carried out returns nil and removes nothing but the
\* record of its id: with the id absent the collection is as before, and a
\* second delete of the id changes nothing
C21_DeleteAbsentNoOp ==
    (repo.call = "delete" /\ repo.ok) =>
        /\ repo.err = <<>>
        /\ repo.arg.id \notin Ids(repo.before) => col = repo.before
        /\ col = {r \in repo.before : r.id # repo.arg.id}
        /\ DeleteResumePoint(col, repo.arg.id) = col
        /\ DeleteError(col, repo.arg.id, TRUE) = <<>>

C21_Witness ==
    /\ repo.call = "delete" /\ repo.ok
    /\ repo.arg.id \notin Ids(repo.before)
    /\ col # {}

\* C22: a save the driver carried out leaves the saved record as the only
\* one of its id, adds a record only if the id was not stored, keeps every
\* record of another id as it was, and saving the record again changes nothing
C22_SaveIdempotentUpsert ==
    (repo.call = "save" /\ repo.ok) =>
        /\ repo.arg \in col
        /\ \A r \in col : r.id = repo.arg.id => r = repo.arg
        /\ Cardinality(col) = Cardinality(repo.before)
               + (IF repo.arg.id \in Ids(repo.before) THEN 0 ELSE 1)
        /\ {r \in col : r.id # repo.arg.id} = {r \in repo.before : r.id # repo.arg.id}
        /\ SaveResumePoint(col, repo.arg) = col

C22_Witness ==
    /\ repo.call = "save" /\ repo.ok
    /\ repo.arg.id \in Ids(repo.before)
    /\ repo.arg \notin repo.before
    /\ Cardinality(col) >= 2

\* C25: Manager.Watch starts the watcher with the caller's resume point if one
\* was passed, else with a stored record of greatest timestamp, else cold when
\* the store is empty; when the read fails otherwise it returns an error
\* without starting the watcher; the store is never written on the way
C25_ResumePointResolution ==
    repo.call = "watch" =>
        /\ col = repo.before
        /\ repo.arg # NoEvent =>
               (repo.started /\ repo.err = <<>> /\ repo.out = repo.arg)
        /\ (repo.arg = NoEvent /\ repo.ok /\ repo.before # {}) =>
               (repo.started /\ repo.err = <<>> /\ repo.out \in GetLastResumePoint(repo.before))
        /\ (repo.arg = NoEvent /\ repo.ok /\ repo.before = {}) =>
               (repo.started /\ repo.err = <<>> /\ repo.out = NoEvent)
        /\ (repo.arg = NoEvent /\ ~repo.ok) =>
               (~repo.started /\ repo.err # <<>> /\ repo.out = NoEvent)

C25_Witness ==
    /\ repo.call = "watch"
    /\ repo.arg # NoEvent
    /\ repo.before # {}
    /\ repo.arg \notin GetLastResumePoint(repo.before)
    /\ repo.started

\* saveFunc has just returned nil for changeEvent
Saved == pc = "save" /\ pc' \in {"delete", "dispatch"}

\* C23 as stated: after every save the record of greatest timestamp is a
\* single one, the record of the event just saved
C23_Original ==
    [][Saved => GetLastResumePoint(col') = {ResumePointOf(changeEvent)}]_vars

\* C23 amended: nothing is found exactly when the store is empty; after every
\* save the records of greatest timestamp all carry the saved event's
\* timestamp and the saved record is one of them; another one is the record of
\* a write of the same transaction; the saved record is the only one when the
\* event does not share its timestamp with the event before it
C23_LastIsLatestTimestamp ==
    /\ [](GetLastResumePoint(col) = {} <=> col = {})
    /\ [][Saved =>
             /\ ResumePointOf(changeEvent) \in GetLastResumePoint(col')
             /\ \A r \in GetLastResumePoint(col') :
                    /\ r.ts = changeEvent.ts
                    /\ r # ResumePointOf(changeEvent) =>
                           /\ r.op # OperationTypeInvalidate
                           /\ changeEvent.op # OperationTypeInvalidate
                           /\ previousEvent # NoEvent
                           /\ previousEvent.ts = changeEvent.ts
             /\ (previousEvent = NoEvent \/ previousEvent.ts < changeEvent.ts) =>
                    GetLastResumePoint(col') = {ResumePointOf(changeEvent)}
         ]_vars

C23_Witness ==
    /\ pc = "delete"
    /\ previousEvent.ts = changeEvent.ts
    /\ GetLastResumePoint(col) = {ResumePointOf(changeEvent), ResumePointOf(previousEvent)}

\* the first event of an attempt is handed to the dispatch funcs, and some
\* event was handed to them in an earlier attempt
FirstDispatchOfRestart ==
    dispatched = <<>> /\ dispatched' # <<>> /\ lastObserved # NoEvent

\* C24 as stated: a restarted attempt begins no earlier than the most
\* recently delivered event, so that event at most is delivered again
C24_Original ==
    [][FirstDispatchOfRestart => lastObserved'.id >= lastObserved.id]_vars

\* C24 amended: a restarted attempt begins no earlier than the first event
\* that carries the timestamp of the most recently delivered event, so the
\* events delivered again are writes of that event's transaction, at most
\* MaxTxn of them, and never an event before an invalidate event delivered
C24_ReplayWithinTransaction ==
    [][FirstDispatchOfRestart =>
          /\ lastObserved'.ts >= lastObserved.ts
          /\ lastObserved'.id >= FirstAtOrAfter(feed, lastObserved.ts)
          /\ lastObserved.id - lastObserved'.id < MaxTxn
          /\ lastObserved.op = OperationTypeInvalidate =>
                 lastObserved'.id >= lastObserved.id
      ]_vars

C24_Witness ==
    /\ Len(dispatched) = 2
    /\ prior.last # NoEvent
    /\ dispatched[2] = prior.last.id
    /\ dispatched[2] = lastObserved.id
    /\ feed[dispatched[1]].ts = feed[dispatched[2]].ts
    /\ prior.result = "nil"

\* C26: on the normal path deleteFunc is reached only from a saveFunc that
\* returned nil, with a previous event, and the dispatch funcs only from a
\* deleteFunc that returned nil, or from such a saveFunc when there is no
\* previous event: the event's record is stored when the delete starts, and
\* when the dispatch starts it is stored and the previous event's is not
C26_SaveDeleteDispatchOrder ==
    /\ [](pc = "delete" =>
             /\ ResumePointOf(changeEvent) \in col
             /\ previousEvent # NoEvent)
    /\ [](pc = "dispatch" =>
             /\ ResumePointOf(changeEvent) \in col
             /\ previousEvent # NoEvent => previousEvent.id \notin {r.id : r \in col})
    /\ [][/\ (pc' = "delete" /\ pc # "delete") => pc = "save"
          /\ (pc' = "dispatch" /\ pc # "dispatch") =>
                 \/ pc = "delete"
                 \/ pc = "save" /\ previousEvent = NoEvent
          /\ (pc = "save" /\ pc' \notin {"save", "idle"}) =>
                 pc' = IF previousEvent = NoEvent THEN "dispatch" ELSE "delete"
         ]_vars

C26_Witness ==
    /\ pc = "dispatch"
    /\ previousEvent # NoEvent
    /\ ResumePointOf(previousEvent) \notin col
    /\ Len(dispatched) >= 2
    /\ col = {ResumePointOf(changeEvent)}

\* C27: in an attempt started with a resume point the store is not written
\* while no second event has been drawn: the first event goes to the dispatch
\* funcs only, never to saveFunc or deleteFunc, and then is previousEvent
C27_FirstEventNoWrite ==
    /\ []((resumePoint # NoEvent /\ Len(yielded) = 1) => pc \in {"first", "next", "idle"})
    /\ [][(resumePoint # NoEvent /\ pc # "idle" /\ Len(yielded) <= 1) => col' = col]_vars
    /\ [][(pc = "first" /\ pc' = "next") =>
             /\ previousEvent' = changeEvent
             /\ dispatched' = <<changeEvent.id>>
         ]_vars

C27_Witness ==
    /\ resumePoint # NoEvent
    /\ pc = "next"
    /\ Len(yielded) = 1
    /\ dispatched = yielded
    /\ previousEvent = changeEvent
    /\ col = {resumePoint}

\* C28: the first event drawn in an attempt started with a resume point is the
\* event of that resume point, and whenever an event is about to be handed to
\* the dispatch funcs a record of it is in the store
C28_FirstEventIsCheckpoint ==
    /\ pc = "first" => ResumePointOf(changeEvent) = resumePoint
    /\ pc \in {"first", "dispatch"} => ResumePointOf(changeEvent) \in col

\* the attempt has ended in the dispatch funcs of the normal path, or right
\* after them, on an invalidate event
EndedOnInvalidate ==
    /\ pc = "idle"
    /\ endedAt = "dispatch"
    /\ result \in {"err", "invalidate"}
    /\ changeEvent.op = OperationTypeInvalidate

\* C29 as stated: the attempt that dispatched an invalidate event on the
\* normal path returns the Invalidate error, whatever the dispatch funcs
\* returned, and the store's latest record is the event's
C29_Original ==
    EndedOnInvalidate =>
        /\ ErrorsIs(WatchError(result, endedAt), ErrInvalidate)
        /\ GetLastResumePoint(col) = {ResumePointOf(changeEvent)}

\* C29 amended: the attempt ends with the dispatch of an invalidate event on
\* the normal path: it returns the Invalidate error when the dispatch funcs
\* returned nil and their error, which is not the Invalidate error, when they
\* failed; either way the store's latest record is the invalidate event's
C29_InvalidateNormalPath ==
    /\ pc = "next" => previousEvent.op # OperationTypeInvalidate
    /\ EndedOnInvalidate =>
           /\ GetLastResumePoint(col) = {ResumePointOf(changeEvent)}
           /\ changeEvent.id = dispatched[Len(dispatched)]
           /\ result = "invalidate" =>
                  ErrorsIs(WatchError(result, endedAt), ErrInvalidate)
           /\ result = "err" =>
                  /\ ~ErrorsIs(WatchError(result, endedAt), ErrInvalidate)
                  /\ ErrorsIs(WatchError(result, endedAt), "failed to process event")

C29_Witness ==
    /\ EndedOnInvalidate
    /\ result = "err"
    /\ Cardinality(col) = 2
    /\ GetLastResumePoint(col) = {ResumePointOf(changeEvent)}

\* C30: an attempt that ended on an invalidate event drawn first after a
\* resume ran the dispatch funcs on it once, and the attempt after it draws
\* first the event that follows that invalidate event
C30_InvalidateFirstEvent ==
    /\ (pc = "idle" /\ result = "invalidate" /\ endedAt = "first") =>
           dispatched = <<changeEvent.id>>
    /\ (prior.result = "invalidate" /\ prior.endedAt = "first" /\ yielded # <<>>) =>
           /\ resumePoint.op = OperationTypeInvalidate
           /\ yielded[1] = prior.last.id + 1

\* C31: a failed saveFunc ends the attempt with the store as it was and with
\* nothing deleted or dispatched for the event; a failed deleteFunc ends the
\* attempt with the event not dispatched and with both records, the event's
\* and the previous event's, in the store, and the next attempt dispatches
\* the event before any later one
C31_StoreFailureResumable ==
    /\ [][/\ (pc = "save" /\ pc' = "idle" /\ result' = "err") =>
                 /\ col' = col
                 /\ dispatched' = dispatched
          /\ (pc = "delete" /\ pc' = "idle" /\ result' = "err") =>
                 /\ col' = col
                 /\ dispatched' = dispatched
                 /\ ResumePointOf(changeEvent) \in col'
                 /\ ResumePointOf(previousEvent) \in col'
         ]_vars
    /\ []((prior.result = "err" /\ prior.endedAt = "delete") =>
             \A i \in 1..Len(dispatched) :
                 dispatched[i] > prior.last.id =>
                     \E j \in 1..(i - 1) : dispatched[j] = prior.last.id)

\* C32: every open of getWatchCursor sets neither start option when there is
\* no resume point, only the start-after token, the point's id, when the
\* point's operation type is invalidate, and only the start-at operation
\* time, the point's timestamp, for any other point
C32_OpenOptions ==
    \A i \in 1..Len(cursor.opts) :
        LET o == cursor.opts[i]
        IN /\ cursor.rp = NoEvent =>
                  (o.startAfter = 0 /\ o.startAtOperationTime = 0)
           /\ (cursor.rp # NoEvent /\ cursor.rp.op = OperationTypeInvalidate) =>
                  (o.startAfter = cursor.rp.id /\ o.startAtOperationTime = 0)
           /\ (cursor.rp # NoEvent /\ cursor.rp.op # OperationTypeInvalidate) =>
                  (o.startAtOperationTime = cursor.rp.ts /\ o.startAfter = 0)

C32_Witness ==
    /\ cursor.rp # NoEvent /\ cursor.rp.op = OperationTypeInvalidate
    /\ cursor.rp.ts # cursor.rp.id
    /\ Len(cursor.opts) = 2
    /\ cursor.opts[2].startAfter = cursor.rp.id
    /\ cursor.open

\* C33: col.Watch is called a second time exactly when its first answer is an
\* error whose text contains NoMatchingDocument; the second open has the start
\* options of the first and asks for no pre-image, and its answer decides the
\* outcome; any other error of the first open, and any error of the second,
\* is returned wrapped, with no cursor and no further open
C33_PreImageFallback ==
    cursor.opts # <<>> =>
        /\ Len(cursor.opts) = Len(cursor.resps)
        /\ Len(cursor.opts) \in {1, 2}
        /\ Len(cursor.opts) = 2 <=>
               (cursor.resps[1] # <<>> /\ StringsContains(cursor.resps[1], "NoMatchingDocument"))
        /\ Len(cursor.opts) = 2 =>
               /\ cursor.opts[2].fullDocumentBeforeChange = "off"
               /\ cursor.opts[2].startAfter = cursor.opts[1].startAfter
               /\ cursor.opts[2].startAtOperationTime = cursor.opts[1].startAtOperationTime
               /\ cursor.opts[2].fullDocument = cursor.opts[1].fullDocument
        /\ LET last == cursor.resps[Len(cursor.resps)]
           IN /\ cursor.open <=> last = <<>>
              /\ cursor.err = IF last = <<>> THEN <<>>
                              ELSE Wrap("failed to watch collection", last)

C33_Witness ==
    /\ Len(cursor.opts) = 2
    /\ cursor.rp # NoEvent
    /\ cursor.opts[1].fullDocumentBeforeChange = "required"
    /\ cursor.opts[2].fullDocumentBeforeChange = "off"
    /\ cursor.open

\* C34: the pre-image capture the first open asks for is the configured
\* capture mode: none when the mode is off, required when it is required
C34_CaptureModeFollowed ==
    cursor.opts # <<>> =>
        /\ cursor.mode = "off" => cursor.opts[1].fullDocumentBeforeChange = "off"
        /\ cursor.mode = "required" => cursor.opts[1].fullDocumentBeforeChange = "required"

\* C35: no step empties a store that holds a record: deleteFunc is handed the
\* previous event, whose id is not the id of the event just saved, and the
\* record of the event just saved outlives it; so every Watch that starts
\* once a record was saved starts from a stored resume point
C35_StoreNeverEmptied ==
    /\ [](pc = "delete" =>
             /\ previousEvent.id # changeEvent.id
             /\ ResumePointOf(changeEvent) \in col)
    /\ [][/\ col # {} => col' # {}
          /\ pc = "delete" => ResumePointOf(changeEvent) \in col'
          /\ (pc = "idle" /\ pc' = "next" /\ col # {}) => resumePoint' \in col
         ]_vars

C35_Witness ==
    /\ prior.result # "none"
    /\ resumePoint # NoEvent /\ resumePoint \notin col
    /\ pc = "dispatch" /\ previousEvent # NoEvent
    /\ col = {ResumePointOf(changeEvent)}

\* C36 as stated: from one step to the next the feed index of a record
\* getLast may return does not decrease
C36_Original ==
    [][\A r \in GetLastResumePoint(col), q \in GetLastResumePoint(col') :
           q.id >= r.id]_vars

\* C36 amended: when a step changes the store neither the timestamp of the record
\* getLast returns nor the feed position a Watch resumed from it opens at
\* decreases, and a store with a record keeps one; the feed index of the
\* record is not fixed while the records of two writes of one transaction are
\* stored
C36_CheckpointMonotone ==
    [][col' # col =>
           \A r \in GetLastResumePoint(col) :
               /\ GetLastResumePoint(col') # {}
               /\ \A q \in GetLastResumePoint(col') :
                      /\ q.ts >= r.ts
                      /\ StartPosition(feed', q) >= StartPosition(feed, r)
      ]_vars

C36_Witness ==
    /\ prior.result # "none"
    /\ pc = "delete"
    /\ resumePoint \in col
    /\ Cardinality(GetLastResumePoint(col)) = 1
    /\ \E r \in GetLastResumePoint(col) : r.ts > resumePoint.ts

\* C37: whenever saveFunc is about to be called on an event, every event of
\* the feed from the first one ever handed to the dispatch funcs up to the
\* one before it has had a dispatch that returned nil, in some attempt
C37_NoEventSkipped ==
    (pc = "save" /\ delivered.first # 0) =>
        \A k \in delivered.first..(changeEvent.id - 1) : k \in delivered.ok

\* C38: a Watch call starts under a context that is live, whatever Stop calls
\* were made before it, by the user or by StartWithRetry after an Invalidate
\* error; while the attempt runs only a Stop call made during it cancels that
\* context, and only a cancelled context ends the attempt with nil on
\* cancellation
C38_FreshCancellationScope ==
    /\ [][/\ (pc = "idle" /\ pc' = "next") => ctx' = "live"
          /\ (pc # "idle" /\ ctx = "live" /\ ctx' = "cancelled") =>
                 (cancel /\ pc' = pc /\ sup' = sup /\ supStops' = supStops)
          /\ (pc # "idle" /\ result' = "nil" /\ endedAt' = "cancelled") =>
                 ctx = "cancelled"
         ]_vars
    /\ [](pc # "idle" => supStops = 0)

C38_Witness ==
    /\ prior.result = "invalidate"
    /\ sup = "attempt" /\ supStops = 0
    /\ pc = "dispatch" /\ ctx = "live"
    /\ resumePoint.op = OperationTypeInvalidate

\* C39: once the user's Stop has cancelled the context (StartWithRetry itself
\* has made no Stop call since the attempt began), no Watch is started
C39_StopEndsRetry ==
    [][(sup # "off" /\ ctx = "cancelled" /\ supStops = 0) =>
           ~(pc = "idle" /\ pc' # "idle")]_vars
====
